---- MODULE Spec2Model ----
(***************************************************************************)
(* Model of app.py: a Streamlit chat front end over get_response, the      *)
(* pipeline that turns a question into SQL (first language-model call),    *)
(* filters it with validate_query, runs it on the database and phrases the *)
(* result (second language-model call).                                    *)
(*                                                                         *)
(* Texts that the code inspects (the user's input, the synthesized SQL)    *)
(* are sequences of one-character strings, so that lower(), strip() and    *)
(* the substring test are computed character by character.  Texts the code *)
(* only passes along (responses, database results) are plain strings.      *)
(***************************************************************************)
EXTENDS Integers, Sequences, FiniteSets, TLC

VARIABLES
    chat_history,   \* st.session_state.chat_history
    db,             \* st.session_state.db (NoDb while the attribute is absent)
    settings,       \* the sidebar's text_input widgets, by key
    pc,             \* position of the running script
    user_query,     \* value of st.chat_input in this run
    hist,           \* get_response's local chat_history
    schema,         \* the schema text of the chain being run
    sql_query,      \* get_response's local sql_query
    par,            \* results of the concurrent steps of RunnablePassthrough.assign
    response,       \* response of the turn
    ret,            \* what get_response returned (NoReturn until it returns)
    panel,          \* the "Show Generated SQL Query" expander: <<>> or <<sql>>
    calls,          \* calls made by this run, in order
    outcome,        \* how the last run ended
    turns           \* number of chat inputs submitted so far

vars == <<chat_history, db, settings, pc, user_query, hist, schema, sql_query,
          par, response, ret, panel, calls, outcome, turns>>

-----------------------------------------------------------------------------
(* Bounds *)

MaxTurns == 3

-----------------------------------------------------------------------------
(* Texts *)

UpperChars == <<"A","B","C","D","E","F","G","H","I","J","K","L","M",
                "N","O","P","Q","R","S","T","U","V","W","X","Y","Z">>
LowerChars == <<"a","b","c","d","e","f","g","h","i","j","k","l","m",
                "n","o","p","q","r","s","t","u","v","w","x","y","z">>
Whitespace == {" ", "\t", "\n"}

\* str.lower() on one character
LowerChar(c) ==
    IF \E i \in 1..Len(UpperChars) : UpperChars[i] = c
    THEN LowerChars[CHOOSE i \in 1..Len(UpperChars) : UpperChars[i] = c]
    ELSE c

\* str.lower()
Lower(s) == [i \in 1..Len(s) |-> LowerChar(s[i])]

\* str.strip()
RECURSIVE LStrip(_)
LStrip(s) == IF s # <<>> /\ Head(s) \in Whitespace THEN LStrip(Tail(s)) ELSE s
RECURSIVE RStrip(_)
RStrip(s) ==
    IF s # <<>> /\ s[Len(s)] \in Whitespace
    THEN RStrip(SubSeq(s, 1, Len(s) - 1)) ELSE s
Strip(s) == RStrip(LStrip(s))

\* the substring test  sub in s
Contains(s, sub) ==
    \E i \in 0..(Len(s) - Len(sub)) : SubSeq(s, i + 1, i + Len(sub)) = sub

\* truth value of a str
Truthy(s) == Len(s) > 0

\* the slice  l[-n:]
LastN(l, n) == SubSeq(l, IF Len(l) > n THEN Len(l) - n + 1 ELSE 1, Len(l))

-----------------------------------------------------------------------------
(* Messages *)

AIMessage(c) == [role |-> "ai", content |-> c]
HumanMessage(c) == [role |-> "human", content |-> c]

Welcome == AIMessage("Hello! I'm a SQL assistant. Ask me anything about your database.")

-----------------------------------------------------------------------------
(* Pure functions of app.py *)

\* init_database with host and port in each other's place
init_database_HostPortSwapped(user, password, host, port, database) ==
    [uri |-> <<"mysql+mysqlconnector://", user, ":", password, "@", port,
               ":", host, "/", database>>]

\* init_database: the URI the gateway is built from, segment by segment
init_database(user, password, host, port, database) ==
    [uri |-> <<"mysql+mysqlconnector://", user, ":", password, "@", host,
               ":", port, "/", database>>]

\* db.get_table_info(): the schema text of the database the gateway is on
get_table_info(d) == <<"schema of", d.uri>>

\* validate_query without .lower()
validate_query_CaseSensitive(sql) ==
    IF Contains(sql, <<"u","p","d","a","t","e">>)
       \/ Contains(sql, <<"d","e","l","e","t","e">>)
    THEN FALSE
    ELSE TRUE

\* validate_query without the test for "delete"
validate_query_UpdateOnly(sql) ==
    IF Contains(Lower(sql), <<"u","p","d","a","t","e">>) THEN FALSE ELSE TRUE

validate_query(sql) ==
    LET sql_query_lower == Lower(sql)
    IN  IF Contains(sql_query_lower, <<"u","p","d","a","t","e">>)
           \/ Contains(sql_query_lower, <<"d","e","l","e","t","e">>)
        THEN FALSE
        ELSE TRUE

HistoryWindow == 5

\* the slice taken from the wrong end, chat_history[:5]
Truncate_FirstFive(l) == SubSeq(l, 1, IF Len(l) > HistoryWindow THEN HistoryWindow ELSE Len(l))

\* the slice taken before the turn of the current question
Truncate_BeforeQuestion(l) == LastN(SubSeq(l, 1, Len(l) - 1), HistoryWindow)

\* chat_history[-5:]
Truncate(l) == LastN(l, HistoryWindow)

GreetingKeys ==
    { <<"h","e","l","l","o">>,
      <<"h","i">>,
      <<"h","o","w"," ","a","r","e"," ","y","o","u">>,
      <<"b","y","e">>,
      <<"g","o","o","d","b","y","e">>,
      <<"h","a","v","e"," ","a"," ","g","o","o","d"," ","d","a","y">> }

general_messages ==
    [k \in GreetingKeys |->
        CASE k = <<"h","e","l","l","o">> -> "Hello! How can I assist you today?"
          [] k = <<"h","i">> -> "Hi there! How can I help?"
          [] k = <<"h","o","w"," ","a","r","e"," ","y","o","u">>
                -> "I'm just a bot, but I'm here to help!"
          [] k = <<"b","y","e">> -> "Goodbye! Have a great day!"
          [] k = <<"g","o","o","d","b","y","e">> -> "Take care! See you next time!"
          [] OTHER -> "You too! Let me know if you need anything."]

\* the greeting test without .lower()
IsGreeting_CaseSensitive(q) == q \in DOMAIN general_messages

\* user_query.lower() in general_messages
IsGreeting(q) == Lower(q) \in DOMAIN general_messages

Refusal == "Update and Delete operations are not allowed. Please ask a read-only query."

\* user_query is not None and user_query.strip() != ""
Accepted(q) == Strip(q) # <<>>

\* the human turn not appended
AppendHuman_Skipped(h, q) == h

\* the human turn is appended before get_response is called
AppendHuman(h, q) == Append(h, HumanMessage(q))

\* if sql_query:  -- whether the expander is rendered
ShowsSql(sql) == Truthy(sql)

\* a failure of db.run swallowed
AssignRaises_SchemaOnly(p) == p.schema = "failed"

\* every failure swallowed
AssignRaises_Never(p) == FALSE

\* RunnableParallel re-raises the failure of any of its steps
AssignRaises(p) == p.schema = "failed" \/ p.response = "failed"

-----------------------------------------------------------------------------
(* Inputs from outside: the user, the language model, the database *)

NoDb == [uri |-> <<>>]
Unbound == <<"unbound">>
NoText == "unbound"
NoReturn == <<>>
ParIdle == [schema |-> "idle", response |-> "idle", value |-> NoText]

DefaultSettings ==
    [Host |-> "localhost", Port |-> "3306", User |-> "root",
     Password |-> "admin", Database |-> "Chinook"]

\* what the user may type into each settings field
FieldValues ==
    [Host |-> {"localhost", "10.0.0.2"}, Port |-> {"3306"}, User |-> {"root"},
     Password |-> {"admin"}, Database |-> {"Chinook"}]

\* what the user may submit to st.chat_input
UserInputs ==
    { <<" "," ">>,                 \* blank
      <<"H","i">>,                 \* a greeting, in another case
      <<" ","h","i">>,             \* a greeting with surrounding whitespace
      <<"Q","1">> }                \* a question

\* completions of the SQL-synthesis call
SqlTexts ==
    { <<"S","E","L","E","C","T"," ","1">>,
      <<"U","p","D","a","t","e"," ","t">>,
      <<"x","_","d","e","l","e","t","e","d">>,
      <<"u","p","d","a","t">>,
      <<>> }

\* completions of the answer-synthesis call
Answers == {"There are 15 customers."}

\* textual results of db.run
RunResults == {"15"}

Ok(v) == [ok |-> TRUE, value |-> v]
Failed(v) == [ok |-> FALSE, value |-> v]

-----------------------------------------------------------------------------
(* The script *)

Init ==
    /\ chat_history = <<Welcome>>
    /\ db = NoDb
    /\ settings = DefaultSettings
    /\ pc = "idle"
    /\ user_query = Unbound
    /\ hist = <<>>
    /\ schema = Unbound
    /\ sql_query = Unbound
    /\ par = ParIdle
    /\ response = NoText
    /\ ret = NoReturn
    /\ panel = <<>>
    /\ calls = <<>>
    /\ outcome = "init"
    /\ turns = 0

\* every rerun of the script starts with fresh locals and a fresh page
FreshRun ==
    /\ hist' = <<>>
    /\ schema' = Unbound
    /\ sql_query' = Unbound
    /\ par' = ParIdle
    /\ response' = NoText
    /\ ret' = NoReturn
    /\ panel' = <<>>

\* an uncaught exception ends the run
Raise ==
    /\ pc' = "idle"
    /\ outcome' = "error"

\* the user edits one settings field: a rerun with no button and no chat input
EditSetting ==
    /\ pc = "idle"
    /\ \E f \in DOMAIN settings : \E v \in FieldValues[f] :
          /\ v # settings[f]
          /\ settings' = [settings EXCEPT ![f] = v]
    /\ FreshRun
    /\ user_query' = Unbound
    /\ calls' = <<>>
    /\ outcome' = "rerun"
    /\ UNCHANGED <<chat_history, db, pc, turns>>

\* the user clicks Connect
Connect ==
    /\ pc = "idle"
    /\ \E ok \in BOOLEAN :
          /\ calls' = <<[op |-> "init_database", ok |-> ok]>>
          /\ db' = IF ok
                   THEN init_database(settings.User, settings.Password,
                                      settings.Host, settings.Port, settings.Database)
                   ELSE db
          /\ outcome' = IF ok THEN "rerun" ELSE "error"
    /\ FreshRun
    /\ user_query' = Unbound
    /\ UNCHANGED <<chat_history, settings, pc, turns>>

\* the user submits a chat input
ChatInput ==
    /\ pc = "idle"
    /\ turns < MaxTurns
    /\ turns' = turns + 1
    /\ FreshRun
    /\ calls' = <<>>
    /\ \E q \in UserInputs :
          /\ user_query' = q
          /\ IF ~Accepted(q)
             THEN /\ chat_history' = chat_history
                  /\ pc' = "idle"
                  /\ outcome' = "blank"
             ELSE /\ chat_history' = AppendHuman(chat_history, q)
                  /\ IF db = NoDb
                     THEN Raise     \* st.session_state.db: AttributeError
                     ELSE /\ pc' = "get_response"
                          /\ outcome' = "running"
    /\ UNCHANGED <<db, settings>>

\* get_response, line 53
TruncateHistory ==
    /\ pc = "get_response"
    /\ hist' = Truncate(chat_history)
    /\ pc' = "greeting"
    /\ UNCHANGED <<chat_history, db, settings, user_query, schema, sql_query, par,
                   response, ret, panel, calls, outcome, turns>>

\* get_response, lines 62-63
GreetingCheck ==
    /\ pc = "greeting"
    /\ IF IsGreeting(user_query)
       THEN /\ ret' = << <<>>, general_messages[Lower(user_query)] >>
            /\ pc' = "render"
       ELSE /\ ret' = ret
            /\ pc' = "sql_schema"
    /\ UNCHANGED <<chat_history, db, settings, user_query, hist, schema, sql_query,
                   par, response, panel, calls, outcome, turns>>

\* sql_chain.invoke: RunnablePassthrough.assign(schema=get_schema)
SqlChainSchema ==
    /\ pc = "sql_schema"
    /\ \E ok \in BOOLEAN :
          /\ calls' = Append(calls, [op |-> "get_table_info", chain |-> "sql", ok |-> ok])
          /\ IF ok
             THEN /\ schema' = get_table_info(db)
                  /\ pc' = "sql_llm"
                  /\ outcome' = outcome
             ELSE /\ schema' = schema
                  /\ Raise
    /\ UNCHANGED <<chat_history, db, settings, user_query, hist, sql_query, par,
                   response, ret, panel, turns>>

\* sql_chain.invoke: prompt | llm | StrOutputParser()
SqlChainLLM ==
    /\ pc = "sql_llm"
    /\ \E r \in {Ok(t) : t \in SqlTexts} \cup {Failed(Unbound)} :
          /\ calls' = Append(calls,
                [op |-> "llm", chain |-> "sql", schema |-> schema,
                 chat_history |-> hist, question |-> user_query,
                 ok |-> r.ok, text |-> r.value])
          /\ IF r.ok
             THEN /\ sql_query' = r.value
                  /\ pc' = "validate"
                  /\ outcome' = outcome
             ELSE /\ sql_query' = sql_query
                  /\ Raise
    /\ UNCHANGED <<chat_history, db, settings, user_query, hist, schema, par,
                   response, ret, panel, turns>>

\* get_response, lines 68-69
SafetyCheck ==
    /\ pc = "validate"
    /\ calls' = Append(calls, [op |-> "validate_query", arg |-> sql_query,
                               result |-> validate_query(sql_query)])
    /\ IF ~validate_query(sql_query)
       THEN /\ ret' = << <<>>, Refusal >>
            /\ par' = par
            /\ pc' = "render"
       ELSE /\ ret' = ret
            /\ par' = [schema |-> "pending", response |-> "pending", value |-> NoText]
            /\ pc' = "assign"
    /\ UNCHANGED <<chat_history, db, settings, user_query, hist, schema, sql_query,
                   response, panel, outcome, turns>>

\* chain.invoke: the step  schema=lambda _: db.get_table_info()
AssignSchema ==
    /\ pc = "assign"
    /\ par.schema = "pending"
    /\ \E ok \in BOOLEAN :
          /\ calls' = Append(calls, [op |-> "get_table_info", chain |-> "answer", ok |-> ok])
          /\ par' = [par EXCEPT !.schema = IF ok THEN "ok" ELSE "failed"]
          /\ schema' = IF ok THEN get_table_info(db) ELSE schema
    /\ UNCHANGED <<chat_history, db, settings, pc, user_query, hist, sql_query,
                   response, ret, panel, outcome, turns>>

\* chain.invoke: the step  response=lambda _: db.run(sql_query)
AssignRun ==
    /\ pc = "assign"
    /\ par.response = "pending"
    /\ \E r \in {Ok(t) : t \in RunResults} \cup {Failed(NoText)} :
          /\ calls' = Append(calls, [op |-> "run", arg |-> sql_query, ok |-> r.ok])
          /\ par' = [par EXCEPT !.response = IF r.ok THEN "ok" ELSE "failed",
                                !.value = r.value]
    /\ UNCHANGED <<chat_history, db, settings, pc, user_query, hist, schema,
                   sql_query, response, ret, panel, outcome, turns>>

\* chain.invoke: the steps of the assign have all ended
AssignJoin ==
    /\ pc = "assign"
    /\ par.schema # "pending"
    /\ par.response # "pending"
    /\ IF AssignRaises(par)
       THEN Raise
       ELSE /\ pc' = "answer_llm"
            /\ outcome' = outcome
    /\ UNCHANGED <<chat_history, db, settings, user_query, hist, schema, sql_query,
                   par, response, ret, panel, calls, turns>>

\* chain.invoke: prompt | llm | StrOutputParser(), and line 102
AnswerLLM ==
    /\ pc = "answer_llm"
    /\ \E r \in {Ok(t) : t \in Answers} \cup {Failed(NoText)} :
          /\ calls' = Append(calls,
                [op |-> "llm", chain |-> "answer", schema |-> schema,
                 chat_history |-> hist, query |-> sql_query,
                 question |-> user_query, response |-> par.value,
                 ok |-> r.ok, text |-> r.value])
          /\ IF r.ok
             THEN /\ ret' = <<sql_query, r.value>>
                  /\ pc' = "render"
                  /\ outcome' = outcome
             ELSE /\ ret' = ret
                  /\ Raise
    /\ UNCHANGED <<chat_history, db, settings, user_query, hist, schema, sql_query,
                   par, response, panel, turns>>

\* the script, lines 151-160
Render ==
    /\ pc = "render"
    /\ panel' = IF ShowsSql(ret[1]) THEN <<ret[1]>> ELSE <<>>
    /\ response' = ret[2]
    /\ chat_history' = Append(chat_history, AIMessage(ret[2]))
    /\ pc' = "idle"
    /\ outcome' = "completed"
    /\ UNCHANGED <<db, settings, user_query, hist, schema, sql_query, par, ret,
                   calls, turns>>

Next ==
    \/ EditSetting
    \/ Connect
    \/ ChatInput
    \/ TruncateHistory
    \/ GreetingCheck
    \/ SqlChainSchema
    \/ SqlChainLLM
    \/ SafetyCheck
    \/ AssignSchema
    \/ AssignRun
    \/ AssignJoin
    \/ AnswerLLM
    \/ Render

Spec == Init /\ [][Next]_vars

-----------------------------------------------------------------------------
(* Vocabulary of the properties *)

Update == <<"u","p","d","a","t","e">>
Delete == <<"d","e","l","e","t","e">>

\* the text, lower-cased, contains "update" or "delete"
Mutating(t) == Contains(Lower(t), Update) \/ Contains(Lower(t), Delete)

\* positions in calls of the calls of one kind
CallsOf(op) == {i \in DOMAIN calls : calls[i].op = op}
LlmCalls(chain) == {i \in CallsOf("llm") : calls[i].chain = chain}

\* a chat input is being, or has been, processed by get_response in this run
InTurn == user_query # Unbound /\ Accepted(user_query)

\* the SQL-synthesis call of this run has returned
Synthesized == sql_query # Unbound

-----------------------------------------------------------------------------
(* C1 *)

\* C1: db.run is executed only on the text the SQL-synthesis call of the same
\* turn returned, unmodified, after validate_query returned True for it; no
\* text whose lower-cased form contains "update" or "delete" is passed to it.
C1_RunOnlySafeSynthesizedSql ==
    \A i \in CallsOf("run") :
        /\ ~Mutating(calls[i].arg)
        /\ \E j \in LlmCalls("sql") :
              /\ j < i
              /\ calls[j].ok
              /\ calls[j].text = calls[i].arg
              /\ \A k \in LlmCalls("sql") : k >= j
        /\ \E v \in CallsOf("validate_query") :
              /\ v < i
              /\ calls[v].arg = calls[i].arg
              /\ calls[v].result = TRUE

\* db.run was executed on a text that no lower-casing leaves unchanged
C1_Witness ==
    \E i \in CallsOf("run") :
        /\ calls[i].ok
        /\ calls[i].arg = <<"S","E","L","E","C","T"," ","1">>
        /\ outcome = "completed"

-----------------------------------------------------------------------------
(* C2 *)

\* C2 as stated: when the synthesized SQL contains "update" or "delete" in any
\* letter case, get_response returns ("", refusal) and the turn calls neither
\* db.get_table_info nor db.run.
C2_Stated ==
    (Synthesized /\ Mutating(sql_query)) =>
        /\ CallsOf("run") = {}
        /\ CallsOf("get_table_info") = {}
        /\ (pc = "render" \/ outcome = "completed") => ret = << <<>>, Refusal >>

\* C2 amended: when the synthesized SQL contains "update" or "delete" in any
\* letter case, validate_query returns False, get_response returns
\* ("", refusal) and db.run is not called in the turn; db.get_table_info is
\* called exactly once, by the SQL-synthesis chain, before the model call.
C2_RefusalWithoutRun ==
    (Synthesized /\ Mutating(sql_query)) =>
        /\ CallsOf("run") = {}
        /\ \E g \in CallsOf("get_table_info") :
              /\ CallsOf("get_table_info") = {g}
              /\ calls[g].chain = "sql"
              /\ \A j \in CallsOf("llm") : g < j
        /\ LlmCalls("answer") = {}
        /\ \A v \in CallsOf("validate_query") : calls[v].result = FALSE
        /\ pc \in {"validate", "render", "idle"}
        /\ (pc # "validate") =>
              /\ CallsOf("validate_query") # {}
              /\ ret = << <<>>, Refusal >>
        /\ (pc = "idle") =>
              /\ outcome = "completed"
              /\ response = Refusal
              /\ panel = <<>>

\* a turn refused for a text that holds "delete" inside a longer word
C2_Witness ==
    /\ outcome = "completed"
    /\ sql_query = <<"x","_","d","e","l","e","t","e","d">>
    /\ ret = << <<>>, Refusal >>

-----------------------------------------------------------------------------
(* C3 *)

\* C3 as stated: when the input, trimmed and lower-cased, equals a greeting
\* phrase, get_response returns ("", canned response) and the turn calls
\* neither the language model nor the database.
C3_Stated ==
    (InTurn /\ Lower(Strip(user_query)) \in GreetingKeys) =>
        /\ calls = <<>>
        /\ (pc = "render" \/ outcome = "completed") =>
              ret = << <<>>, general_messages[Lower(Strip(user_query))] >>

\* C3 amended: when the input, lower-cased but not trimmed, equals a greeting
\* phrase, get_response returns ("", canned response) and the turn calls
\* neither the language model nor the database.
C3_GreetingShortCircuit ==
    (InTurn /\ Lower(user_query) \in GreetingKeys /\ db # NoDb) =>
        /\ calls = <<>>
        /\ pc \in {"get_response", "greeting", "render", "idle"}
        /\ (pc = "render" \/ pc = "idle") =>
              ret = << <<>>, general_messages[Lower(user_query)] >>
        /\ (pc = "idle") =>
              /\ outcome = "completed"
              /\ panel = <<>>
              /\ response = general_messages[Lower(user_query)]

\* a greeting typed in another letter case was answered
C3_Witness ==
    /\ outcome = "completed"
    /\ user_query = <<"H","i">>
    /\ response = "Hi there! How can I help?"

-----------------------------------------------------------------------------
(* C4 *)

\* two turns are the same turn
SameTurn(a, b) == a.role = b.role /\ a.content = b.content

\* h is the last min(n, Len(l)) elements of l, in l's order
IsLastOf(h, l, n) ==
    /\ Len(h) = (IF Len(l) < n THEN Len(l) ELSE n)
    /\ \A k \in 1..Len(h) : SameTurn(h[k], l[Len(l) - Len(h) + k])

\* C4: the history in the prompt of the SQL-synthesis call and in the prompt
\* of the answer-synthesis call has at most 5 turns and is the last
\* min(5, length) turns of the session history, in order; get_response
\* leaves the session history as it was.
C4_PromptHistoryIsLastFive ==
    /\ [](pc # "idle" =>
            \A i \in CallsOf("llm") :
                /\ Len(calls[i].chat_history) <= 5
                /\ IsLastOf(calls[i].chat_history, chat_history, 5))
    /\ [][pc \notin {"idle", "render"} => chat_history' = chat_history]_vars

\* the answer prompt was built in a session whose history has more than 5 turns
C4_Witness ==
    /\ pc = "render"
    /\ Len(chat_history) > 5
    /\ \E i \in LlmCalls("answer") : Len(calls[i].chat_history) = 5

-----------------------------------------------------------------------------
(* C5 *)

\* get_response has taken its slice of the history
Truncated == pc \notin {"idle", "get_response"}

\* C5 as stated: when get_response truncates the history, the turn of the
\* current question is not in it: the context is the last (at most 5) turns
\* that precede the current question.
C5_Stated ==
    Truncated =>
        IsLastOf(hist, SubSeq(chat_history, 1, Len(chat_history) - 1), 5)

\* C5 amended: when get_response truncates the history, the human turn of the
\* current question is already the last turn of the session history, so it is
\* the last turn of the context, after at most 4 turns that precede it.
C5_QuestionIsLastOfContext ==
    Truncated =>
        /\ SameTurn(chat_history[Len(chat_history)], HumanMessage(user_query))
        /\ IsLastOf(hist, chat_history, 5)
        /\ Len(hist) >= 2
        /\ SameTurn(hist[Len(hist)], HumanMessage(user_query))
        /\ IsLastOf(SubSeq(hist, 1, Len(hist) - 1),
                    SubSeq(chat_history, 1, Len(chat_history) - 1), 4)

\* a truncation that dropped turns of a longer history
C5_Witness ==
    /\ pc = "greeting"
    /\ Len(chat_history) > 5
    /\ Len(hist) = 5

-----------------------------------------------------------------------------
(* C6 *)

\* the calls of the pipeline's four steps, in the order they were made
Steps == SelectSeq(calls, LAMBDA e : e.op \in {"llm", "validate_query", "run"})

\* C6: a completed turn for a question that is no greeting and whose SQL
\* passes validate_query has made, in this order and once each, the
\* SQL-synthesis call, the validate_query check, db.run on the synthesized
\* SQL and the answer-synthesis call, whose prompt holds db.run's result; it
\* returned (synthesized SQL, text of the second call).
C6_HappyPathOrder ==
    (outcome = "completed" /\ ~IsGreeting(user_query)
        /\ Synthesized /\ validate_query(sql_query)) =>
        /\ Len(Steps) = 4
        /\ Steps[1].op = "llm" /\ Steps[1].chain = "sql" /\ Steps[1].ok
        /\ Steps[1].text = sql_query
        /\ Steps[2].op = "validate_query" /\ Steps[2].arg = sql_query
        /\ Steps[2].result = TRUE
        /\ Steps[3].op = "run" /\ Steps[3].arg = sql_query /\ Steps[3].ok
        /\ Steps[4].op = "llm" /\ Steps[4].chain = "answer" /\ Steps[4].ok
        /\ Steps[4].query = sql_query
        /\ Steps[4].response \in RunResults
        /\ Steps[4].response = par.value
        /\ ret = <<sql_query, Steps[4].text>>
        /\ Steps[4].text \in Answers

\* a question was answered from the result of its query
C6_Witness ==
    /\ outcome = "completed"
    /\ user_query = <<"Q","1">>
    /\ ret = << <<"S","E","L","E","C","T"," ","1">>, "There are 15 customers." >>

-----------------------------------------------------------------------------
(* C7 *)

\* C7: when db.run fails, the failure leaves get_response as an error: no
\* pair is returned, the answer-synthesis call is not made, db.run is not
\* called again, and the turn ends with no reply.
C7_RunFailurePropagates ==
    (\E i \in CallsOf("run") : ~calls[i].ok) =>
        /\ ret = NoReturn
        /\ LlmCalls("answer") = {}
        /\ Cardinality(CallsOf("run")) = 1
        /\ pc \in {"assign", "idle"}
        /\ (pc = "idle") =>
              /\ outcome = "error"
              /\ response = NoText
              /\ SameTurn(chat_history[Len(chat_history)], HumanMessage(user_query))

\* a turn ended by a failure of db.run, the schema step having succeeded
C7_Witness ==
    /\ pc = "idle"
    /\ par.response = "failed"
    /\ par.schema = "ok"
    /\ outcome = "error"

-----------------------------------------------------------------------------
(* C8 *)

\* C8: in a completed turn the expander shows the generated SQL exactly when
\* db.run was executed in the turn, and it shows the text db.run was given.
C8_PanelIffRun ==
    (outcome = "completed") =>
        /\ (panel # <<>>) <=> (CallsOf("run") # {})
        /\ \A i \in CallsOf("run") : panel = <<calls[i].arg>>

-----------------------------------------------------------------------------
(* C9 *)

\* the five parameters the stored gateway was built from are those of s
BuiltFrom(d, s) ==
    /\ Len(d.uri) = 10
    /\ d.uri[2] = s.User
    /\ d.uri[4] = s.Password
    /\ d.uri[6] = s.Host
    /\ d.uri[8] = s.Port
    /\ d.uri[10] = s.Database

\* C9 as stated: once a gateway is stored in the session, no later action
\* changes the parameters it refers to.
C9_Stated == [][db # NoDb => db' = db]_vars

\* C9 amended: editing the settings fields never changes the stored gateway;
\* the stored gateway changes only by a Connect action, which replaces it,
\* also when one is stored already, by a gateway built from the current
\* values of the five fields.
C9_GatewayFollowsConnect ==
    /\ [][settings' # settings => db' = db]_vars
    /\ [][db' # db =>
            /\ pc = "idle"
            /\ settings' = settings
            /\ calls' = <<[op |-> "init_database", ok |-> TRUE]>>
            /\ BuiltFrom(db', settings)]_vars
    /\ [](calls = <<[op |-> "init_database", ok |-> TRUE]>> => BuiltFrom(db, settings))

\* the fields were edited after a Connect: the stored gateway is on another host
C9_Witness ==
    /\ db # NoDb
    /\ db.uri[6] = "10.0.0.2"
    /\ settings.Host = "localhost"

-----------------------------------------------------------------------------
(* C10 *)

\* C10 as stated: the history starts with the welcome turn and alternates
\* AI, human, AI, human, ... after any sequence of inputs.
C10_Stated ==
    /\ SameTurn(chat_history[1], Welcome)
    /\ \A i \in DOMAIN chat_history :
          chat_history[i].role = (IF i % 2 = 1 THEN "ai" ELSE "human")

\* l is h with the turns of t appended
Extends(l, h, t) ==
    /\ Len(l) = Len(h) + Len(t)
    /\ \A k \in DOMAIN h : SameTurn(l[k], h[k])
    /\ \A k \in DOMAIN t : SameTurn(l[Len(h) + k], t[k])

\* C10 amended: the history starts with the welcome turn and no turn is ever
\* removed or modified; a blank input appends nothing; an accepted input
\* appends one human turn, and one AI turn holding the response follows it
\* only when the turn completes.  A turn ended by an error (an input before
\* any Connect, a failed external call) leaves its human turn unanswered, so
\* two human turns can be adjacent; two AI turns never are.
C10_HistoryAppendOnly ==
    /\ [](/\ SameTurn(chat_history[1], Welcome)
          /\ \A i \in 1..(Len(chat_history) - 1) :
                ~(chat_history[i].role = "ai" /\ chat_history[i + 1].role = "ai")
          /\ (InTurn /\ (pc # "idle" \/ outcome = "error")) =>
                SameTurn(chat_history[Len(chat_history)], HumanMessage(user_query))
          /\ (outcome = "completed") =>
                /\ Len(chat_history) >= 3
                /\ SameTurn(chat_history[Len(chat_history) - 1], HumanMessage(user_query))
                /\ SameTurn(chat_history[Len(chat_history)], AIMessage(response)))
    /\ [][\/ chat_history' = chat_history
          \/ /\ pc = "idle"
             /\ Accepted(user_query')
             /\ Extends(chat_history', chat_history, <<HumanMessage(user_query')>>)
          \/ /\ pc = "render"
             /\ outcome' = "completed"
             /\ Extends(chat_history', chat_history, <<AIMessage(response')>>)]_vars
    /\ [][(turns' # turns /\ ~Accepted(user_query')) => chat_history' = chat_history]_vars

\* a turn ended by an error was followed by a turn that completed
C10_Witness ==
    /\ outcome = "completed"
    /\ \E i \in 1..(Len(chat_history) - 1) :
          chat_history[i].role = "human" /\ chat_history[i + 1].role = "human"

====
